---- MODULE Spec2Model ----
(***************************************************************************)
(* netui: the packet engine (scanner.rs), the consumer (app.rs) and the    *)
(* sliding-window statistics (stats_aggregator.rs) as one state machine.   *)
(* Each component has its own specification over the shared variables:     *)
(*   SpecAccumulator  Capture Worker folds and Tick Worker drains          *)
(*   SpecScan         Emitter Worker, command channel, 's' key, consumer   *)
(*   SpecHosts        consumer host list: HostFound, StatTick, keys        *)
(*   SpecDirection    Scanner::get_stats on one packet                     *)
(*   SpecAggregator   StatsAggregator::tick and its queries                *)
(*   SpecEviction     StatsAggregator::tick with the history of its inputs *)
(*   SpecStartup      the three workers and the consumer together          *)
(*   SpecShutdown     SpecStartup with the key q and the return of main    *)
(*   SpecCapture      Capture Worker on well-formed and malformed frames   *)
(***************************************************************************)
EXTENDS Integers, Sequences, FiniteSets, TLC

VARIABLES
    nif,          \* the selected NetworkInterface: [mac, ips]
    agg,          \* Arc<Mutex<StatsMap>>: the per-second accumulator
    mutex,        \* owner of the accumulator mutex: "free", "capture", "tick"
    capPc,        \* Capture Worker position
    capStat,      \* Capture Worker local `stat`
    tickPc,       \* Tick Worker position
    data_clone,   \* Tick Worker local `data_clone`
    published,    \* StatTick maps sent on scanner_outputs, in order
    added,        \* history: per key, the amount the folds added to agg
    folded,       \* history: per key, sizes of the samples folded since the last reset
    nFolds,       \* history: number of folds done
    nTicks,       \* history: number of timer ticks taken
    chan,         \* scanner_outputs: events sent and not yet received by the consumer
    clock,        \* chrono::Local::now()
    window,             \* StatsAggregator: capacity of the windows
    speed_buffer_,      \* StatsAggregator: direction sums, oldest first
    stat_keys_len,      \* StatsAggregator: occupied length of stat_keys_buffer_
    stats_buffer,       \* StatsAggregator: raw per-second maps, oldest first
    pairs_buffer,       \* StatsAggregator: pair maps, oldest first
    hosts_buffer,       \* StatsAggregator: per-host maps, oldest first
    total_speed_buffer, \* StatsAggregator: total speeds, oldest first
    nAggTicks,          \* history: number of calls of StatsAggregator::tick
    running,            \* App.running
    sending_arps,       \* App.sending_arps
    hosts,              \* App.hosts
    selected,           \* App.table_state.selected(): None or Some(row)
    interface,          \* App.interface
    cmdQ,               \* scanner_input channel: commands sent and not yet received
    emPc,               \* Emitter Worker position
    emNets,             \* Emitter Worker: prefixes left in the `for ip_network` loop
    emAddrs,            \* Emitter Worker: addresses left in scan_range's loop
    stream,             \* history: BeginScan, probe and Complete emissions, in order
    emCmd,              \* history: number of commands the Emitter Worker has received
    overlap,            \* history: a command was sent while a scan was active
    nCmds,              \* history: number of StartScanning commands sent
    lastEv,             \* history: the event the consumer handled last
    ticked,             \* history: the maps given to StatsAggregator::tick, in order
    nSleeps,            \* history: number of 37 ms sleeps the Emitter Worker completed
    lastRead,           \* history: the frame the Capture Worker read last
    rx_dropped,         \* the receiver of scanner_outputs has been dropped
    interfaces,         \* pnet_datalink::interfaces(), in enumeration order
    interface_name,     \* the name fragment given on the command line
    found,              \* result of Scanner::find_interface_or_get_default
    bits,               \* argument of format_size, as three limbs
    formatted           \* unit of the string format_size returned

capVars == <<agg, mutex, capPc, capStat, tickPc, data_clone, published,
             added, folded, nFolds, nTicks>>

aggVars == <<window, speed_buffer_, stat_keys_len, stats_buffer, pairs_buffer,
             hosts_buffer, total_speed_buffer>>

appVars == <<running, sending_arps, hosts, selected, interface>>

emVars == <<emPc, emNets, emAddrs, stream, emCmd>>

fnVars == <<interfaces, interface_name, found, bits, formatted>>

auxVars == <<ticked, nSleeps, lastRead, rx_dropped, fnVars>>

vars == <<nif, capVars, chan, clock, aggVars, nAggTicks, appVars, cmdQ, emVars, nCmds,
          overlap, lastEv, auxVars>>

(***************************************************************************)
(* Bounds of the model.                                                    *)
(***************************************************************************)
AddrBits == 2        \* width of a model IPv4 address
MaxFolds == 3        \* folds of the Capture Worker in one run
MaxTicks == 2        \* timer ticks of the Tick Worker in one run
MaxClock == 1        \* largest reading of the wall clock
MaxChan == 3         \* events waiting in scanner_outputs
MaxWindow == 2       \* largest window size an aggregator is created with
MaxAggTicks == 3     \* calls of StatsAggregator::tick in one run
MaxCmds == 2         \* StartScanning commands sent in one run
MaxHostTicks == 1    \* StatTick events delivered to the host list in one run
MaxEvictWindow == 3  \* largest window size in SpecEviction
MaxEvictTicks == 4   \* calls of StatsAggregator::tick in one run of SpecEviction

\* Option<T>: None is the empty sequence, Some(x) the one-element sequence
None == <<>>
Some(x) == <<x>>
Unwrap(o) == o[1]
EmptyMap == <<>>

RECURSIVE Pow2(_)
Pow2(n) == IF n = 0 THEN 1 ELSE 2 * Pow2(n - 1)

Addrs == 0 .. (Pow2(AddrBits) - 1)

(***************************************************************************)
(* HashMap helpers: a map is a function whose domain is its key set.       *)
(***************************************************************************)
MapGet(m, k) == IF k \in DOMAIN m THEN m[k] ELSE 0

MapPut(m, k, v) == [x \in (DOMAIN m) \cup {k} |-> IF x = k THEN v ELSE m[x]]

RECURSIVE SeqSum(_, _)
SeqSum(s, k) == IF s = <<>> THEN 0 ELSE MapGet(Head(s), k) + SeqSum(Tail(s), k)

(***************************************************************************)
(* ipnetwork: a prefix is [v, ip, prefix]; iterating an IPv4 prefix yields *)
(* every address from the network address to the broadcast address.        *)
(***************************************************************************)
HostCount(net) == Pow2(AddrBits - net.prefix)

NetworkAddr(net) == net.ip - (net.ip % HostCount(net))

\* mutant of NetworkIter: the usable host addresses only, without the
\* network and the broadcast address
NetworkIter_UsableHosts(net) ==
    IF HostCount(net) <= 2
    THEN [i \in 1 .. HostCount(net) |-> NetworkAddr(net) + (i - 1)]
    ELSE [i \in 1 .. (HostCount(net) - 2) |-> NetworkAddr(net) + i]

NetworkIter(net) ==
    [i \in 1 .. HostCount(net) |-> NetworkAddr(net) + (i - 1)]

(***************************************************************************)
(* Scanner::get_stats: the direction of a packet and its traffic sample.   *)
(* A packet is [ipok, src, dst, proto, l4ok, sport, dport, len]: ipok and  *)
(* l4ok say whether Ipv4Packet::new and TcpPacket::new / UdpPacket::new    *)
(* return Some.                                                            *)
(***************************************************************************)
V4Prefixes(n) == SelectSeq(n.ips, LAMBDA ipn : ipn.v = 4)

RECURSIVE FlattenIps(_)
FlattenIps(nets) ==
    IF nets = <<>> THEN <<>> ELSE NetworkIter(Head(nets)) \o FlattenIps(Tail(nets))

Contains(s, x) == \E i \in 1 .. Len(s) : s[i] = x

\* mutant of InterfaceIps: only the address each prefix is bound with
InterfaceIps_OwnOnly(n) ==
    [i \in 1 .. Len(V4Prefixes(n)) |-> V4Prefixes(n)[i].ip]

InterfaceIps(n) == FlattenIps(V4Prefixes(n))

DirectionOf(src_ip, dst_ip, n) ==
    LET ips == InterfaceIps(n)
        s == Contains(ips, src_ip)
        d == Contains(ips, dst_ip)
    IN  CASE s /\ d -> "Local"
          [] s /\ ~d -> "Outgoing"
          [] ~s /\ d -> "Incomming"
          [] OTHER -> "None"

\* mutant of GetStats: a sample is made of every IPv4 packet, whatever its
\* protocol and whether or not its transport header is complete
GetStats_AnyProtocol(pkt, n) ==
    IF ~pkt.ipok THEN None
    ELSE Some([key |-> [direction |-> DirectionOf(pkt.src, pkt.dst, n),
                        src_port |-> pkt.sport, sdt_port |-> pkt.dport,
                        src_ip |-> pkt.src, dst_ip |-> pkt.dst],
               value |-> 8 * pkt.len])

GetStats(pkt, n) ==
    IF ~pkt.ipok THEN None
    ELSE IF pkt.proto \notin {"tcp", "udp"} THEN None
    ELSE IF ~pkt.l4ok THEN None
    ELSE Some([key |-> [direction |-> DirectionOf(pkt.src, pkt.dst, n),
                        src_port |-> pkt.sport, sdt_port |-> pkt.dport,
                        src_ip |-> pkt.src, dst_ip |-> pkt.dst],
               value |-> 8 * pkt.len])

(***************************************************************************)
(* Scanner::get_host_infos: the Host of an ARP frame, None if the ARP      *)
(* payload is truncated.                                                   *)
(***************************************************************************)
GetHostInfos(arp, n, now) ==
    IF ~arp.ok THEN None
    ELSE Some([time |-> now, mac |-> arp.mac, ipv4 |-> arp.ip,
               hostname |-> None,
               is_my_device_mac |->
                   (arp.mac = IF n.mac = None THEN 0 ELSE Unwrap(n.mac)),
               speed |-> None])

(***************************************************************************)
(* Capture Worker (second task of Scanner::start_listening).               *)
(***************************************************************************)
\* the value of `stat` while the worker holds no sample
NoStat == [key |-> [direction |-> "None", src_port |-> 0, sdt_port |-> 0,
                    src_ip |-> 0, dst_ip |-> 0],
           value |-> 0]

Fold(m, stat) ==
    IF stat.key \in DOMAIN m
    THEN [m EXCEPT ![stat.key] = @ + stat.value]
    ELSE MapPut(m, stat.key, 0)

CaptureRead(frame) ==
    /\ capPc = "read"
    /\ lastRead' = frame
    /\ CASE frame.kind = "arp" ->
              \E now \in {clock, clock + 1} :
                  /\ now <= MaxClock
                  /\ clock' = now
                  /\ LET host == GetHostInfos(frame.arp, nif, now)
                     IN  IF host = None \/ rx_dropped THEN chan' = chan
                         ELSE /\ Len(chan) < MaxChan
                              /\ chan' = Append(chan, [type |-> "HostFound",
                                                    host |-> Unwrap(host)])
                  /\ UNCHANGED <<capPc, capStat>>
         [] frame.kind = "ipv4" ->
              LET stat == GetStats(frame.pkt, nif)
              IN  /\ IF stat = None THEN UNCHANGED <<capPc, capStat>>
                     ELSE capPc' = "lock" /\ capStat' = Unwrap(stat)
                  /\ UNCHANGED <<chan, clock>>
         [] OTHER -> UNCHANGED <<capPc, capStat, chan, clock>>
    /\ UNCHANGED <<nif, agg, mutex, tickPc, data_clone, published,
                   added, folded, nFolds, nTicks, aggVars, nAggTicks,
                   appVars, cmdQ, emVars, nCmds, overlap, lastEv,
                   ticked, nSleeps, rx_dropped, fnVars>>

\* mutant of CaptureLock: the fold runs without taking the accumulator mutex
CaptureLock_NoMutex ==
    /\ capPc = "lock"
    /\ nFolds < MaxFolds
    /\ capPc' = "fold"
    /\ UNCHANGED <<nif, agg, mutex, capStat, tickPc, data_clone, published,
                   added, folded, nFolds, nTicks, chan, clock, aggVars, nAggTicks,
                   appVars, cmdQ, emVars, nCmds, overlap, lastEv, auxVars>>

CaptureLock ==
    /\ capPc = "lock"
    /\ mutex = "free"
    /\ nFolds < MaxFolds
    /\ mutex' = "capture"
    /\ capPc' = "fold"
    /\ UNCHANGED <<nif, agg, capStat, tickPc, data_clone, published,
                   added, folded, nFolds, nTicks, chan, clock, aggVars, nAggTicks,
                   appVars, cmdQ, emVars, nCmds, overlap, lastEv, auxVars>>

CaptureFold ==
    /\ capPc = "fold"
    /\ agg' = Fold(agg, capStat)
    /\ added' = MapPut(added, capStat.key,
                       MapGet(added, capStat.key)
                         + (MapGet(agg', capStat.key) - MapGet(agg, capStat.key)))
    /\ folded' = MapPut(folded, capStat.key, MapGet(folded, capStat.key) + capStat.value)
    /\ nFolds' = nFolds + 1
    /\ capPc' = "unlock"
    /\ UNCHANGED <<nif, mutex, capStat, tickPc, data_clone, published,
                   nTicks, chan, clock, aggVars, nAggTicks,
                   appVars, cmdQ, emVars, nCmds, overlap, lastEv, auxVars>>

CaptureUnlock ==
    /\ capPc = "unlock"
    /\ mutex' = "free"
    /\ capPc' = "read"
    /\ capStat' = NoStat
    /\ UNCHANGED <<nif, agg, tickPc, data_clone, published,
                   added, folded, nFolds, nTicks, chan, clock, aggVars, nAggTicks,
                   appVars, cmdQ, emVars, nCmds, overlap, lastEv, auxVars>>

(***************************************************************************)
(* Tick Worker (first task of Scanner::start_listening).                   *)
(***************************************************************************)
TickWake ==
    /\ tickPc = "await"
    /\ nTicks < MaxTicks
    /\ nTicks' = nTicks + 1
    /\ tickPc' = "lock"
    /\ UNCHANGED <<nif, agg, mutex, capPc, capStat, data_clone, published,
                   added, folded, nFolds, chan, clock, aggVars, nAggTicks,
                   appVars, cmdQ, emVars, nCmds, overlap, lastEv, auxVars>>

\* mutant of TickLock: the drain runs without taking the accumulator mutex
TickLock_NoMutex ==
    /\ tickPc = "lock"
    /\ tickPc' = "clone"
    /\ UNCHANGED <<nif, agg, mutex, capPc, capStat, data_clone, published,
                   added, folded, nFolds, nTicks, chan, clock, aggVars, nAggTicks,
                   appVars, cmdQ, emVars, nCmds, overlap, lastEv, auxVars>>

TickLock ==
    /\ tickPc = "lock"
    /\ mutex = "free"
    /\ mutex' = "tick"
    /\ tickPc' = "clone"
    /\ UNCHANGED <<nif, agg, capPc, capStat, data_clone, published,
                   added, folded, nFolds, nTicks, chan, clock, aggVars, nAggTicks,
                   appVars, cmdQ, emVars, nCmds, overlap, lastEv, auxVars>>

TickClone ==
    /\ tickPc = "clone"
    /\ data_clone' = agg
    /\ tickPc' = "reset"
    /\ UNCHANGED <<nif, agg, mutex, capPc, capStat, published,
                   added, folded, nFolds, nTicks, chan, clock, aggVars, nAggTicks,
                   appVars, cmdQ, emVars, nCmds, overlap, lastEv, auxVars>>

TickReset ==
    /\ tickPc = "reset"
    /\ agg' = EmptyMap
    /\ folded' = EmptyMap
    /\ tickPc' = "unlock"
    /\ UNCHANGED <<nif, mutex, capPc, capStat, data_clone, published,
                   added, nFolds, nTicks, chan, clock, aggVars, nAggTicks,
                   appVars, cmdQ, emVars, nCmds, overlap, lastEv, auxVars>>

TickUnlock ==
    /\ tickPc = "unlock"
    /\ mutex' = "free"
    /\ tickPc' = "send"
    /\ UNCHANGED <<nif, agg, capPc, capStat, data_clone, published,
                   added, folded, nFolds, nTicks, chan, clock, aggVars, nAggTicks,
                   appVars, cmdQ, emVars, nCmds, overlap, lastEv, auxVars>>

TickSend ==
    /\ tickPc = "send"
    /\ IF rx_dropped
       THEN /\ tickPc' = "panicked"
            /\ UNCHANGED <<chan, published, data_clone>>
       ELSE /\ Len(chan) < MaxChan
            /\ chan' = Append(chan, [type |-> "StatTick", map |-> data_clone])
            /\ published' = Append(published, data_clone)
            /\ data_clone' = EmptyMap
            /\ tickPc' = "await"
    /\ UNCHANGED <<nif, agg, mutex, capPc, capStat,
                   added, folded, nFolds, nTicks, clock, aggVars, nAggTicks,
                   appVars, cmdQ, emVars, nCmds, overlap, lastEv, auxVars>>

(***************************************************************************)
(* StatsAggregator. A ring buffer (HeapRb) is the sequence of its entries, *)
(* oldest first. stat_keys_buffer_ is written in HashMap iteration order   *)
(* and never read: the model keeps its occupied length.                    *)
(***************************************************************************)
DefaultWindow == 10
StatKeysCapacity == 100

\* mutant of PushOverwrite: a full buffer keeps growing
PushOverwrite_NoEvict(rb, cap, x) == Append(rb, x)

\* mutant of PushOverwrite: a full buffer gives up its newest entry
PushOverwrite_DropNewest(rb, cap, x) ==
    IF Len(rb) >= cap THEN Append(SubSeq(rb, 1, Len(rb) - 1), x) ELSE Append(rb, x)

PushOverwrite(rb, cap, x) ==
    IF Len(rb) >= cap THEN Append(Tail(rb), x) ELSE Append(rb, x)

ZeroSpeed == [input |-> 0, output |-> 0]

SpeedAdd(a, b) == [input |-> a.input + b.input, output |-> a.output + b.output]

SpeedDiv(a, n) == [input |-> a.input \div n, output |-> a.output \div n]

\* the sum of f[x] over the keys x in S, f a map to Speed
RECURSIVE SumSpeed(_, _)
SumSpeed(f, S) ==
    IF S = {} THEN ZeroSpeed
    ELSE LET x == CHOOSE y \in S : TRUE
         IN  SpeedAdd(f[x], SumSpeed(f, S \ {x}))

RECURSIVE SumSize(_, _)
SumSize(m, S) ==
    IF S = {} THEN 0
    ELSE LET x == CHOOSE y \in S : TRUE
         IN  m[x] + SumSize(m, S \ {x})

\* tick, lines 45-62: the (outgoing, incoming, local, none) totals of a map
DirectionSum(hash_map) ==
    LET of(d) == SumSize(hash_map, {k \in DOMAIN hash_map : k.direction = d})
    IN  <<of("Outgoing"), of("Incomming"), of("Local"), of("None")>>

\* mutant of Swapped: Incomming samples keep their endpoints
Swapped_LocalOnly(k) == k.direction = "Local" /\ k.src_ip > k.dst_ip

\* update_pairs_stats_buffer, lines 80-89: the IpPair of a sample key
Swapped(k) ==
    k.direction = "Incomming" \/ (k.direction = "Local" /\ k.src_ip > k.dst_ip)

Canonicalize(k) ==
    [src_ip |-> IF Swapped(k) THEN k.dst_ip ELSE k.src_ip,
     dst_ip |-> IF Swapped(k) THEN k.src_ip ELSE k.dst_ip,
     is_local |-> (k.direction = "Local")]

\* update_pairs_stats_buffer, lines 90-109: the Speed one sample adds
SpeedPairToAdd(k, size) ==
    CASE k.direction = "Outgoing" -> [input |-> 0, output |-> size]
      [] k.direction = "Incomming" -> [input |-> size, output |-> 0]
      [] k.direction = "Local" ->
            IF Canonicalize(k).src_ip /= k.src_ip
            THEN [input |-> 0, output |-> size]
            ELSE [input |-> size, output |-> 0]
      [] OTHER -> ZeroSpeed

\* mutant of PairsOf: a pair keeps the Speed of one of its samples instead of
\* the sum over all of them
PairsOf_NoAccumulate(item) ==
    LET pairs == {Canonicalize(k) : k \in DOMAIN item}
        toAdd == [k \in DOMAIN item |-> SpeedPairToAdd(k, item[k])]
    IN  [p \in pairs |-> toAdd[CHOOSE k \in DOMAIN item : Canonicalize(k) = p]]

\* update_pairs_stats_buffer, lines 78-116: the pair map of one raw map
PairsOf(item) ==
    LET pairs == {Canonicalize(k) : k \in DOMAIN item}
        toAdd == [k \in DOMAIN item |-> SpeedPairToAdd(k, item[k])]
    IN  [p \in pairs |-> SumSpeed(toAdd, {k \in DOMAIN item : Canonicalize(k) = p})]

\* mutant of HostsOf: the speed of a pair goes to its dst
HostsOf_ByDst(pairs) ==
    LET nonLocal == {p \in DOMAIN pairs : ~p.is_local}
    IN  [ip \in {p.dst_ip : p \in nonLocal} |->
            SumSpeed(pairs, {p \in nonLocal : p.dst_ip = ip})]

\* mutant of HostsOf: local pairs are not filtered out
HostsOf_WithLocal(pairs) ==
    [ip \in {p.src_ip : p \in DOMAIN pairs} |->
        SumSpeed(pairs, {p \in DOMAIN pairs : p.src_ip = ip})]

\* update_hosts_stats_buffer, lines 189-200: the per-host map of one pair map
HostsOf(pairs) ==
    LET nonLocal == {p \in DOMAIN pairs : ~p.is_local}
    IN  [ip \in {p.src_ip : p \in nonLocal} |->
            SumSpeed(pairs, {p \in nonLocal : p.src_ip = ip})]

\* update_total_speed, lines 208-211: the total of one per-host map
TotalOf(per_host) == SumSpeed(per_host, DOMAIN per_host)

MapSeq(F(_), s) == [i \in 1 .. Len(s) |-> F(s[i])]

\* mutant of AggTick: the derived windows are recomputed before the new
\* map is pushed into the raw window
AggTick_StaleDerived(a, hash_map) ==
    LET pairs == MapSeq(PairsOf, a.stats_buffer)
        per_host == MapSeq(HostsOf, pairs)
    IN  [window |-> a.window,
         speed_buffer_ |-> PushOverwrite(a.speed_buffer_, a.window, DirectionSum(hash_map)),
         stat_keys_len |->
             IF a.stat_keys_len + Cardinality(DOMAIN hash_map) > StatKeysCapacity
             THEN StatKeysCapacity
             ELSE a.stat_keys_len + Cardinality(DOMAIN hash_map),
         stats_buffer |-> PushOverwrite(a.stats_buffer, a.window, hash_map),
         pairs_buffer |-> pairs,
         hosts_buffer |-> per_host,
         total_speed_buffer |-> MapSeq(TotalOf, per_host)]

\* StatsAggregator::tick on the windows given as a record
AggTick(a, hash_map) ==
    LET stats == PushOverwrite(a.stats_buffer, a.window, hash_map)
        pairs == MapSeq(PairsOf, stats)
        per_host == MapSeq(HostsOf, pairs)
    IN  [window |-> a.window,
         speed_buffer_ |-> PushOverwrite(a.speed_buffer_, a.window, DirectionSum(hash_map)),
         stat_keys_len |->
             IF a.stat_keys_len + Cardinality(DOMAIN hash_map) > StatKeysCapacity
             THEN StatKeysCapacity
             ELSE a.stat_keys_len + Cardinality(DOMAIN hash_map),
         stats_buffer |-> stats,
         pairs_buffer |-> pairs,
         hosts_buffer |-> per_host,
         total_speed_buffer |-> MapSeq(TotalOf, per_host)]

\* the aggregator of the current state, and the assignment of one to the next
Aggregator ==
    [window |-> window, speed_buffer_ |-> speed_buffer_,
     stat_keys_len |-> stat_keys_len, stats_buffer |-> stats_buffer,
     pairs_buffer |-> pairs_buffer, hosts_buffer |-> hosts_buffer,
     total_speed_buffer |-> total_speed_buffer]

SetAggregator(a) ==
    /\ window' = a.window
    /\ speed_buffer_' = a.speed_buffer_
    /\ stat_keys_len' = a.stat_keys_len
    /\ stats_buffer' = a.stats_buffer
    /\ pairs_buffer' = a.pairs_buffer
    /\ hosts_buffer' = a.hosts_buffer
    /\ total_speed_buffer' = a.total_speed_buffer

\* mutant of SpeedPerHost: the sum is divided by the occupied length of the
\* window
SpeedPerHost_ByOccupied(a) ==
    LET hb == a.hosts_buffer
        ips == UNION {DOMAIN hb[i] : i \in 1 .. Len(hb)}
        in(ip) == {i \in 1 .. Len(hb) : ip \in DOMAIN hb[i]}
        at(ip) == [i \in in(ip) |-> hb[i][ip]]
    IN  [ip \in ips |-> SpeedDiv(SumSpeed(at(ip), in(ip)), Len(hb))]

\* StatsAggregator::speed_per_host
SpeedPerHost(a) ==
    LET hb == a.hosts_buffer
        ips == UNION {DOMAIN hb[i] : i \in 1 .. Len(hb)}
        in(ip) == {i \in 1 .. Len(hb) : ip \in DOMAIN hb[i]}
        at(ip) == [i \in in(ip) |-> hb[i][ip]]
    IN  [ip \in ips |-> SpeedDiv(SumSpeed(at(ip), in(ip)), Cardinality(in(ip)))]

RECURSIVE SumSeq(_)
SumSeq(s) == IF s = <<>> THEN ZeroSpeed ELSE SpeedAdd(Head(s), SumSeq(Tail(s)))

\* mutant of SpeedStr: the sum is divided by the capacity of the window
SpeedStr_ByCapacity(a) ==
    IF a.total_speed_buffer = <<>> THEN None
    ELSE Some(SpeedDiv(SumSeq(a.total_speed_buffer), a.window))

\* StatsAggregator::speed_str: the Speed it formats, None where it returns ""
SpeedStr(a) ==
    IF a.total_speed_buffer = <<>> THEN None
    ELSE Some(SpeedDiv(SumSeq(a.total_speed_buffer), Len(a.total_speed_buffer)))

\* StatsAggregator::connections_strs: the average Speed it formats per pair
ConnectionsStrs(a) ==
    LET pb == a.pairs_buffer
        keys == UNION {DOMAIN pb[i] : i \in 1 .. Len(pb)}
        in(p) == {i \in 1 .. Len(pb) : p \in DOMAIN pb[i]}
        at(p) == [i \in in(p) |-> pb[i][p]]
    IN  [p \in keys |-> SpeedDiv(SumSpeed(at(p), in(p)), Cardinality(in(p)))]

(***************************************************************************)
(* App (the consumer): the handlers of worker events and of key presses.   *)
(* A Host is [time, ipv4, mac, hostname, is_my_device_mac, speed].         *)
(* scroll_state and the column selection are written by the handlers and   *)
(* read by the renderer only; the model leaves them out.                   *)
(***************************************************************************)
\* impl PartialEq for Host
HostEq(a, b) == a.ipv4 = b.ipv4 /\ a.mac = b.mac

SaturatingSub(a, b) == IF a >= b THEN a - b ELSE 0

\* index of the first host equal to `host`, 0 if there is none
FindHost(hs, host) ==
    IF \E i \in 1 .. Len(hs) : HostEq(hs[i], host)
    THEN CHOOSE i \in 1 .. Len(hs) :
            /\ HostEq(hs[i], host)
            /\ \A j \in 1 .. (i - 1) : ~HostEq(hs[j], host)
    ELSE 0

\* mutant of OnHostFound: the record is pushed without looking for it
OnHostFound_AlwaysPush(hs, host) == Append(hs, host)

\* mutant of OnHostFound: the entry is replaced by the incoming record,
\* speed included
OnHostFound_DropSpeed(hs, host) ==
    LET i == FindHost(hs, host)
    IN  IF i /= 0 THEN [hs EXCEPT ![i] = host] ELSE Append(hs, host)

\* handle_worker_events, HostFound arm: the host list afterwards
OnHostFound(hs, host) ==
    LET i == FindHost(hs, host)
    IN  IF i /= 0
        THEN [hs EXCEPT ![i] = [host EXCEPT !.speed = hs[i].speed]]
        ELSE Append(hs, host)

\* mutant of OnStatTick: a host without an entry in speeds gets speed zero
OnStatTick_ZeroMissing(hs, speeds) ==
    [i \in 1 .. Len(hs) |->
        IF hs[i].ipv4 \in DOMAIN speeds
        THEN [hs[i] EXCEPT !.speed = Some(speeds[hs[i].ipv4])]
        ELSE [hs[i] EXCEPT !.speed = Some(ZeroSpeed)]]

\* handle_worker_events, StatTick arm: the host list afterwards
OnStatTick(hs, speeds) ==
    [i \in 1 .. Len(hs) |->
        IF hs[i].ipv4 \in DOMAIN speeds
        THEN [hs[i] EXCEPT !.speed = Some(speeds[hs[i].ipv4])]
        ELSE hs[i]]

\* App::handle_worker_events
HandleWorkerEvents(ev) ==
    CASE ev.type = "HostFound" ->
            /\ hosts' = OnHostFound(hosts, ev.host)
            /\ UNCHANGED <<running, sending_arps, selected, interface,
                           aggVars, nAggTicks>>
      [] ev.type = "Complete" ->
            /\ sending_arps' = FALSE
            /\ UNCHANGED <<running, hosts, selected, interface,
                           aggVars, nAggTicks>>
      [] ev.type = "BeginScan" ->
            /\ sending_arps' = TRUE
            /\ UNCHANGED <<running, hosts, selected, interface,
                           aggVars, nAggTicks>>
      [] ev.type = "InterfaceName" ->
            /\ interface' = ev.name
            /\ UNCHANGED <<running, sending_arps, hosts, selected, aggVars, nAggTicks>>
      [] ev.type = "StatTick" ->
            /\ nAggTicks' = nAggTicks + 1
            /\ SetAggregator(AggTick(Aggregator, ev.map))
            /\ hosts' = OnStatTick(hosts, SpeedPerHost(AggTick(Aggregator, ev.map)))
            /\ UNCHANGED <<running, sending_arps, selected, interface>>

\* Scanner::send_arp_packets
SendArpPackets ==
    /\ nCmds < MaxCmds
    /\ nCmds' = nCmds + 1
    /\ cmdQ' = Append(cmdQ, "StartScanning")
    /\ overlap' = (overlap \/ emPc /= "recv")

\* App::next_row
NextRow ==
    LET i == IF selected = None THEN Some(0)
             ELSE IF Unwrap(selected) + 1 >= Len(hosts) THEN None
             ELSE Some(Unwrap(selected) + 1)
    IN  selected' = i

\* App::previous_row
PreviousRow ==
    LET i == IF selected = None THEN Some(SaturatingSub(Len(hosts), 1))
             ELSE IF Unwrap(selected) = 0 THEN None
             ELSE Some(Unwrap(selected) - 1)
    IN  selected' = i

\* mutant of CleanHostAndOlders: hosts as old as the selected one are kept
CleanHostAndOlders_KeepSameAge(hs, sel) ==
    IF sel = None THEN hs
    ELSE IF Unwrap(sel) >= Len(hs) THEN hs
    ELSE SelectSeq(hs, LAMBDA h : h.time >= hs[Unwrap(sel) + 1].time)

\* App::clean_host_and_olders: the host list afterwards
CleanHostAndOlders(hs, sel) ==
    IF sel = None THEN hs
    ELSE IF Unwrap(sel) >= Len(hs) THEN hs
    ELSE SelectSeq(hs, LAMBDA h : h.time > hs[Unwrap(sel) + 1].time)

\* App::handle_key_events; key is [code, ctrl]. The column keys 'l' and 'h'
\* move ratatui's column selection only and are left out.
HandleKeyEvents(key) ==
    /\ running
    /\ emPc /= "exited"
    /\ CASE key.code \in {"Esc", "q"} ->
              /\ running' = FALSE
              /\ UNCHANGED <<sending_arps, hosts, selected, interface,
                             cmdQ, nCmds, overlap>>
         [] key.code = "c" ->
              IF key.ctrl
              THEN /\ running' = FALSE
                   /\ UNCHANGED <<sending_arps, hosts, selected, interface, cmdQ, nCmds, overlap>>
              ELSE /\ hosts' = CleanHostAndOlders(hosts, selected)
                   /\ UNCHANGED <<running, sending_arps, selected, interface, cmdQ, nCmds, overlap>>
         [] key.code = "j" ->
              /\ NextRow
              /\ UNCHANGED <<running, sending_arps, hosts, interface, cmdQ, nCmds, overlap>>
         [] key.code = "k" ->
              /\ PreviousRow
              /\ UNCHANGED <<running, sending_arps, hosts, interface, cmdQ, nCmds, overlap>>
         [] key.code = "s" ->
              /\ IF ~sending_arps THEN SendArpPackets ELSE UNCHANGED <<cmdQ, nCmds, overlap>>
              /\ UNCHANGED <<running, sending_arps, hosts, selected, interface>>
         [] OTHER -> UNCHANGED <<appVars, cmdQ, nCmds, overlap>>
    /\ lastEv' = [type |-> "Key", key |-> key]
    /\ UNCHANGED <<nif, capVars, chan, clock, aggVars, nAggTicks, emVars, auxVars>>

\* what lastEv keeps of an event: its type, and the host of a HostFound
EventTag(ev) == IF ev.type = "HostFound" THEN ev ELSE [type |-> ev.type]

\* main loop: the next event of the channel is a scanner event
ConsumerRecv ==
    /\ running
    /\ emPc /= "exited"
    /\ chan /= <<>>
    /\ chan' = Tail(chan)
    /\ HandleWorkerEvents(Head(chan))
    /\ lastEv' = EventTag(Head(chan))
    /\ UNCHANGED <<nif, capVars, clock, cmdQ, emVars, nCmds, overlap, auxVars>>

(***************************************************************************)
(* Emitter Worker (Scanner::start_tx_worker and Scanner::scan_range).      *)
(* stream records what the worker emits: BeginScan and Complete on         *)
(* scanner_outputs and each probe on the datalink sender, tagged with the  *)
(* number of the command being served. The worker runs until the process   *)
(* ends; a send on scanner_outputs is unwrapped, so the task panics when   *)
(* the receiver has been dropped.                                          *)
(***************************************************************************)
Emitted(ev, ip) == [ev |-> ev, ip |-> ip, cmd |-> emCmd]

\* mutant of EmitterRecv: a command is taken while a scan is sleeping
\* between probes, and its scan started at once
EmitterRecv_Concurrent ==
    /\ emPc \in {"recv", "sleep"}
    /\ cmdQ /= <<>>
    /\ cmdQ' = Tail(cmdQ)
    /\ emCmd' = emCmd + 1
    /\ emNets' = V4Prefixes(nif)
    /\ emPc' = IF V4Prefixes(nif) = <<>> THEN "recv" ELSE "begin"
    /\ UNCHANGED <<nif, capVars, chan, clock, aggVars, nAggTicks, appVars,
                   emAddrs, stream, nCmds, overlap, lastEv, auxVars>>

\* while let Some(event) = scanner_input_rx.recv().await, and the head of
\* the `for ip_network` loop
EmitterRecv ==
    /\ emPc = "recv"
    /\ cmdQ /= <<>>
    /\ cmdQ' = Tail(cmdQ)
    /\ emCmd' = emCmd + 1
    /\ emNets' = V4Prefixes(nif)
    /\ emPc' = IF V4Prefixes(nif) = <<>> THEN "recv" ELSE "begin"
    /\ UNCHANGED <<nif, capVars, chan, clock, aggVars, nAggTicks, appVars,
                   emAddrs, stream, nCmds, overlap, lastEv, auxVars>>

\* scan_range, lines 193-198: send BeginScan, start the address loop
EmitterBegin ==
    /\ emPc = "begin"
    /\ IF rx_dropped
       THEN /\ emPc' = "panicked"
            /\ UNCHANGED <<chan, stream, emAddrs>>
       ELSE /\ Len(chan) < MaxChan
            /\ chan' = Append(chan, [type |-> "BeginScan"])
            /\ stream' = Append(stream, Emitted("BeginScan", 0))
            /\ emAddrs' = NetworkIter(Head(emNets))
            /\ emPc' = "sleep"
    /\ UNCHANGED <<nif, capVars, clock, aggVars, nAggTicks, appVars, cmdQ,
                   emNets, emCmd, nCmds, overlap, lastEv, auxVars>>

\* scan_range, line 200: sleep(37 ms).await returns
EmitterSleep ==
    /\ emPc = "sleep"
    /\ emPc' = "probe"
    /\ nSleeps' = nSleeps + 1
    /\ UNCHANGED <<nif, capVars, chan, clock, aggVars, nAggTicks, appVars, cmdQ,
                   emNets, emAddrs, stream, emCmd, nCmds, overlap, lastEv,
                   ticked, lastRead, rx_dropped, fnVars>>

\* mutant of EmitterProbe: the worker sleeps once per prefix and sends the
\* following probes back to back
EmitterProbe_SleepOnce ==
    /\ emPc = "probe"
    /\ IF nif.mac = None
       THEN /\ emPc' = "exited"
            /\ UNCHANGED <<stream, emAddrs>>
       ELSE /\ stream' = Append(stream, Emitted("Probe", Head(emAddrs)))
            /\ emAddrs' = Tail(emAddrs)
            /\ emPc' = IF Tail(emAddrs) = <<>> THEN "complete" ELSE "probe"
    /\ UNCHANGED <<nif, capVars, chan, clock, aggVars, nAggTicks, appVars, cmdQ,
                   emNets, emCmd, nCmds, overlap, lastEv, auxVars>>

\* scan_range, line 201: send_arp_request, which exits the process when the
\* interface has no MAC address, and the step of the address loop
EmitterProbe ==
    /\ emPc = "probe"
    /\ IF nif.mac = None
       THEN /\ emPc' = "exited"
            /\ UNCHANGED <<stream, emAddrs>>
       ELSE /\ stream' = Append(stream, Emitted("Probe", Head(emAddrs)))
            /\ emAddrs' = Tail(emAddrs)
            /\ emPc' = IF Tail(emAddrs) = <<>> THEN "complete" ELSE "sleep"
    /\ UNCHANGED <<nif, capVars, chan, clock, aggVars, nAggTicks, appVars, cmdQ,
                   emNets, emCmd, nCmds, overlap, lastEv, auxVars>>

\* scan_range, lines 204-206: send Complete; then the next prefix or recv
EmitterComplete ==
    /\ emPc = "complete"
    /\ IF rx_dropped
       THEN /\ emPc' = "panicked"
            /\ UNCHANGED <<chan, stream, emNets>>
       ELSE /\ Len(chan) < MaxChan
            /\ chan' = Append(chan, [type |-> "Complete"])
            /\ stream' = Append(stream, Emitted("Complete", 0))
            /\ emNets' = Tail(emNets)
            /\ emPc' = IF Tail(emNets) = <<>> THEN "recv" ELSE "begin"
    /\ UNCHANGED <<nif, capVars, clock, aggVars, nAggTicks, appVars, cmdQ,
                   emAddrs, emCmd, nCmds, overlap, lastEv, auxVars>>

\* main, lines 62-67: the main loop has ended and main returns, which drops
\* the EventHandler and with it the receiver of scanner_outputs
MainExit ==
    /\ ~running
    /\ ~rx_dropped
    /\ rx_dropped' = TRUE
    /\ UNCHANGED <<nif, capVars, chan, clock, aggVars, nAggTicks, appVars, cmdQ,
                   emVars, nCmds, overlap, lastEv, ticked, nSleeps, lastRead, fnVars>>

(***************************************************************************)
(* State after Scanner::new and App::new.                                  *)
(***************************************************************************)
InitCapture ==
    /\ agg = EmptyMap
    /\ mutex = "free"
    /\ capPc = "read"
    /\ capStat = NoStat
    /\ tickPc = "await"
    /\ data_clone = EmptyMap
    /\ published = <<>>
    /\ added = EmptyMap
    /\ folded = EmptyMap
    /\ nFolds = 0
    /\ nTicks = 0

V4Net(ip, prefix) == [v |-> 4, ip |-> ip, prefix |-> prefix]
V6Net == [v |-> 6, ip |-> 0, prefix |-> 0]

\* an interface bound to address 1 in the two-address network {0, 1}
LanNif == [name |-> "eth0", mac |-> Some(1), ips |-> <<V4Net(1, AddrBits - 1)>>]

TcpFrame(src, dst, len) ==
    [kind |-> "ipv4",
     pkt |-> [ipok |-> TRUE, src |-> src, dst |-> dst, proto |-> "tcp",
              l4ok |-> TRUE, sport |-> 1, dport |-> 2, len |-> len]]

(***************************************************************************)
(* SpecAccumulator: the Capture Worker folding TCP samples of two flows    *)
(* and the Tick Worker draining, in every interleaving.                    *)
(***************************************************************************)
AccFrames ==
    {TcpFrame(1, 2, 1), TcpFrame(1, 2, 2), TcpFrame(2, 1, 1), [kind |-> "timeout"]}

\* StatsAggregator::new_with_window_size
InitAggregator(w) ==
    /\ window = w
    /\ speed_buffer_ = <<>>
    /\ stat_keys_len = 0
    /\ stats_buffer = <<>>
    /\ pairs_buffer = <<>>
    /\ hosts_buffer = <<>>
    /\ total_speed_buffer = <<>>

\* mutant of InitChannel: InterfaceName is sent after the Emitter Worker
\* has started and published a BeginScan
InitChannel_Late ==
    chan = <<[type |-> "BeginScan"], [type |-> "InterfaceName", name |-> nif.name]>>

\* Scanner::new, lines 50-54: InterfaceName is sent before the workers start
InitChannel == chan = <<[type |-> "InterfaceName", name |-> nif.name]>>

\* App::new
InitApp ==
    /\ running = TRUE
    /\ sending_arps = FALSE
    /\ hosts = <<>>
    /\ selected = None
    /\ interface = ""

\* find_interface_or_get_default and format_size have not been called
NotCalled == [state |-> "NotCalled"]

InitCalls ==
    /\ interfaces = <<>>
    /\ interface_name = <<>>
    /\ found = NotCalled
    /\ bits = [hi |-> 0, mid |-> 0, lo |-> 0]
    /\ formatted = NotCalled

\* Scanner::new: both channels empty, the Emitter Worker waiting in recv
InitEmitter ==
    /\ cmdQ = <<>>
    /\ emPc = "recv"
    /\ emNets = <<>>
    /\ emAddrs = <<>>
    /\ stream = <<>>
    /\ emCmd = 0
    /\ nCmds = 0
    /\ overlap = FALSE
    /\ lastEv = [type |-> "None"]
    /\ ticked = <<>>
    /\ nSleeps = 0
    /\ lastRead = [kind |-> "none"]
    /\ rx_dropped = FALSE

InitAccumulator ==
    /\ nif = LanNif
    /\ InitCapture
    /\ InitChannel
    /\ clock = 0
    /\ InitAggregator(DefaultWindow)
    /\ nAggTicks = 0
    /\ InitApp
    /\ InitEmitter
    /\ InitCalls

NextAccumulator ==
    \/ \E frame \in AccFrames : CaptureRead(frame)
    \/ CaptureLock
    \/ CaptureFold
    \/ CaptureUnlock
    \/ TickWake
    \/ TickLock
    \/ TickClone
    \/ TickReset
    \/ TickUnlock
    \/ TickSend

SpecAccumulator == InitAccumulator /\ [][NextAccumulator]_vars

\* the map the Tick Worker has moved out of the accumulator and not yet sent
InFlight == IF tickPc \in {"unlock", "send"} THEN data_clone ELSE EmptyMap

\* C1: the drain is atomic with respect to folds: every amount a fold added
\* to the accumulator is in exactly one place (one published StatTick map,
\* the map about to be published, or the accumulator), so it is published
\* once and only once, and the accumulator is empty right after a drain.
C1_DrainAtomic ==
    /\ \A k \in DOMAIN added :
          added[k] = SeqSum(published, k) + MapGet(InFlight, k) + MapGet(agg, k)
    /\ tickPc = "unlock" => agg = EmptyMap

\* a fold ran between a drain that moved a non-zero amount out and its send
C1_Witness ==
    /\ tickPc = "send"
    /\ \E k \in DOMAIN data_clone : data_clone[k] > 0
    /\ DOMAIN agg /= {}

\* C2: between two drains the accumulator holds, under each key, the sum of
\* the sizes of the samples folded under that key.
C2_FoldIsKeyedSum ==
    \A k \in DOMAIN folded : MapGet(agg, k) = folded[k]

(***************************************************************************)
(* SpecAggregator: an aggregator created with a window size in             *)
(* 1..MaxWindow and ticked with per-second maps of at most two samples.    *)
(* The sample keys are the ones get_stats gives on LanNif (0 and 1 are on  *)
(* the interface's network, 2 and 3 are not).                              *)
(***************************************************************************)
StatKeyOf(src, dst, sport, dport) ==
    [direction |-> DirectionOf(src, dst, LanNif), src_port |-> sport,
     sdt_port |-> dport, src_ip |-> src, dst_ip |-> dst]

SampleKeys ==
    <<StatKeyOf(1, 2, 1, 2),    \* Outgoing
      StatKeyOf(1, 2, 2, 2),    \* Outgoing, the same endpoints on another port
      StatKeyOf(2, 1, 2, 1),    \* Incomming
      StatKeyOf(1, 0, 1, 1),    \* Local, src > dst
      StatKeyOf(0, 1, 1, 1),    \* Local, src < dst
      StatKeyOf(2, 3, 1, 1),    \* None
      StatKeyOf(1, 3, 1, 2)>>   \* Outgoing to a second remote address

\* the sample under SampleKeys[i] has size 8 * i
SampleMap(I) == [k \in {SampleKeys[i] : i \in I} |->
                    8 * (CHOOSE i \in I : SampleKeys[i] = k)]

TickMaps ==
    {SampleMap(I) : I \in {J \in SUBSET (1 .. Len(SampleKeys)) : Cardinality(J) <= 2}}

AggregatorTick(hash_map) ==
    /\ nAggTicks < MaxAggTicks
    /\ nAggTicks' = nAggTicks + 1
    /\ SetAggregator(AggTick(Aggregator, hash_map))
    /\ UNCHANGED <<nif, capVars, chan, clock, appVars, cmdQ, emVars, nCmds, overlap, lastEv, auxVars>>

InitAggregatorSpec ==
    /\ nif = LanNif
    /\ InitCapture
    /\ InitChannel
    /\ clock = 0
    /\ \E w \in 1 .. MaxWindow : InitAggregator(w)
    /\ nAggTicks = 0
    /\ InitApp
    /\ InitEmitter
    /\ InitCalls

NextAggregator == \E hash_map \in TickMaps : AggregatorTick(hash_map)

SpecAggregator == InitAggregatorSpec /\ [][NextAggregator]_vars

OnInterface(ip) == Contains(InterfaceIps(nif), ip)

\* the pair the statement of C9 gives for a sample key
C9_ClaimedPair(k) ==
    CASE k.direction = "Incomming" ->
            \* swapped, and the address that is not on the interface is src
            [src_ip |-> IF OnInterface(k.src_ip) THEN k.dst_ip ELSE k.src_ip,
             dst_ip |-> IF OnInterface(k.src_ip) THEN k.src_ip ELSE k.dst_ip,
             is_local |-> FALSE]
      [] k.direction = "Local" ->
            [src_ip |-> IF k.src_ip <= k.dst_ip THEN k.src_ip ELSE k.dst_ip,
             dst_ip |-> IF k.src_ip <= k.dst_ip THEN k.dst_ip ELSE k.src_ip,
             is_local |-> TRUE]
      [] OTHER -> [src_ip |-> k.src_ip, dst_ip |-> k.dst_ip, is_local |-> FALSE]

\* the pair of a sample key with an Incomming sample's endpoints exchanged,
\* which puts the interface-side address (the packet's destination) in src
C9_AmendedPair(k) ==
    CASE k.direction = "Incomming" ->
            [src_ip |-> k.dst_ip, dst_ip |-> k.src_ip, is_local |-> FALSE]
      [] k.direction = "Local" ->
            [src_ip |-> IF k.src_ip <= k.dst_ip THEN k.src_ip ELSE k.dst_ip,
             dst_ip |-> IF k.src_ip <= k.dst_ip THEN k.dst_ip ELSE k.src_ip,
             is_local |-> TRUE]
      [] OTHER -> [src_ip |-> k.src_ip, dst_ip |-> k.dst_ip, is_local |-> FALSE]

\* a raw map that holds exactly an Outgoing sample l -> r and the Incomming
\* sample r -> l
IsSymmetricPair(m, ko, ki) ==
    /\ DOMAIN m = {ko, ki}
    /\ ko.direction = "Outgoing"
    /\ ki.direction = "Incomming"
    /\ ki.src_ip = ko.dst_ip
    /\ ki.dst_ip = ko.src_ip

\* C9 as stated: the keys of every pair map are the pairs of the raw map's
\* keys with, for Incomming, the remote endpoint in src; an Outgoing and an
\* Incomming sample of the same two endpoints make one entry (src = remote,
\* dst = local).
C9_Original ==
    \A i \in 1 .. Len(stats_buffer) :
        /\ DOMAIN pairs_buffer[i] = {C9_ClaimedPair(k) : k \in DOMAIN stats_buffer[i]}
        /\ \A ko, ki \in DOMAIN stats_buffer[i] :
              IsSymmetricPair(stats_buffer[i], ko, ki) =>
                  DOMAIN pairs_buffer[i] =
                      {[src_ip |-> ko.dst_ip, dst_ip |-> ko.src_ip, is_local |-> FALSE]}

\* C9 amended: for Incomming the endpoints are exchanged, which makes the
\* interface-side address src and the remote address dst; Local pairs have
\* src <= dst; Outgoing and None keep their endpoints. An Outgoing sample
\* l -> r and an Incomming sample r -> l of one tick make one non-local
\* entry with src = l (local), dst = r (remote), holding both sizes.
C9_Canonical ==
    \A i \in 1 .. Len(stats_buffer) :
        /\ DOMAIN pairs_buffer[i] = {C9_AmendedPair(k) : k \in DOMAIN stats_buffer[i]}
        /\ \A ko, ki \in DOMAIN stats_buffer[i] :
              IsSymmetricPair(stats_buffer[i], ko, ki) =>
                  pairs_buffer[i] =
                      [p \in {[src_ip |-> ko.src_ip, dst_ip |-> ko.dst_ip,
                               is_local |-> FALSE]} |->
                          [input |-> stats_buffer[i][ki], output |-> stats_buffer[i][ko]]]

\* a window holds a tick of an Outgoing and the matching Incomming sample,
\* and one with a Local sample whose src is above its dst
C9_Witness ==
    /\ \E i \in 1 .. Len(stats_buffer) :
          \E ko, ki \in DOMAIN stats_buffer[i] :
              IsSymmetricPair(stats_buffer[i], ko, ki)
    /\ \E i \in 1 .. Len(stats_buffer) :
          \E k \in DOMAIN stats_buffer[i] :
              k.direction = "Local" /\ k.src_ip > k.dst_ip

\* the aggregator has seen one tick, of one Outgoing sample
SingleOutgoingTick ==
    /\ nAggTicks = 1
    /\ Len(stats_buffer) = 1
    /\ \E k \in DOMAIN stats_buffer[1] :
          DOMAIN stats_buffer[1] = {k} /\ k.direction = "Outgoing"

TheSample == CHOOSE k \in DOMAIN stats_buffer[1] : TRUE

\* C10 as stated: after one tick of one Outgoing sample l -> r of size s,
\* speed_per_host() is {r -> Speed{input 0, output s}}.
C10_Original ==
    SingleOutgoingTick =>
        SpeedPerHost(Aggregator) =
            [ip \in {TheSample.dst_ip} |->
                [input |-> 0, output |-> stats_buffer[1][TheSample]]]

\* C10 amended: per-host speed is attributed to the src of the canonical
\* pair, the interface-side address: after one tick of one Outgoing sample
\* l -> r of size s, speed_per_host() is {l -> Speed{input 0, output s}} and
\* has no entry for r.
C10_PerHostIsPairSrc ==
    SingleOutgoingTick =>
        SpeedPerHost(Aggregator) =
            [ip \in {TheSample.src_ip} |->
                [input |-> 0, output |-> stats_buffer[1][TheSample]]]

C10_Witness == SingleOutgoingTick /\ stats_buffer[1][TheSample] > 0

Min(a, b) == IF a < b THEN a ELSE b

\* C11: after n ticks on an aggregator of window size W, the direction, raw,
\* pair, per-host and total-speed windows each hold exactly min(n, W)
\* entries.
C11_WindowLengths ==
    /\ Len(speed_buffer_) = Min(nAggTicks, window)
    /\ Len(stats_buffer) = Min(nAggTicks, window)
    /\ Len(pairs_buffer) = Min(nAggTicks, window)
    /\ Len(hosts_buffer) = Min(nAggTicks, window)
    /\ Len(total_speed_buffer) = Min(nAggTicks, window)

\* more ticks than the window holds
C11_Witness == nAggTicks > window /\ Len(stats_buffer) = window

\* C12: the derived windows are in lockstep with the raw window: at every
\* index the pair map is the canonicalization of the raw map at that
\* index, the per-host map is derived from the pair map at that index and
\* the total-speed entry is the sum of the values of the per-host map at
\* that index, so no derived entry depends on a raw map at another index.
C12_Lockstep ==
    /\ Len(pairs_buffer) = Len(stats_buffer)
    /\ Len(hosts_buffer) = Len(stats_buffer)
    /\ Len(total_speed_buffer) = Len(stats_buffer)
    /\ \A i \in 1 .. Len(stats_buffer) :
          /\ pairs_buffer[i] = PairsOf(stats_buffer[i])
          /\ hosts_buffer[i] = HostsOf(pairs_buffer[i])
          /\ total_speed_buffer[i] =
                 [input |-> SumSize([ip \in DOMAIN hosts_buffer[i] |->
                                        hosts_buffer[i][ip].input],
                                    DOMAIN hosts_buffer[i]),
                  output |-> SumSize([ip \in DOMAIN hosts_buffer[i] |->
                                         hosts_buffer[i][ip].output],
                                     DOMAIN hosts_buffer[i])]

\* a full window that has evicted a tick and holds two different raw maps
\* with traffic of a host
C12_Witness ==
    /\ nAggTicks > window
    /\ Len(stats_buffer) >= 2
    /\ stats_buffer[1] /= stats_buffer[2]
    /\ \E ip \in DOMAIN hosts_buffer[1] : hosts_buffer[1][ip].output > 0
    /\ \E ip \in DOMAIN hosts_buffer[2] : hosts_buffer[2][ip].input > 0

\* a raw map without its Local samples
RemoveLocal(m) == [k \in {x \in DOMAIN m : x.direction /= "Local"} |-> m[k]]

OnlyLocal(m) == DOMAIN m /= {} /\ \A k \in DOMAIN m : k.direction = "Local"

\* C13: Local samples never contribute to per-host or total-speed data:
\* every per-host map and total-speed entry is what it would be had the
\* Local samples been removed from the raw map, and a tick of Local samples
\* only gives an empty per-host map and the total Speed{0,0}.
C13_LocalNeverCounts ==
    \A i \in 1 .. Len(stats_buffer) :
        /\ hosts_buffer[i] = HostsOf(PairsOf(RemoveLocal(stats_buffer[i])))
        /\ total_speed_buffer[i] =
               TotalOf(HostsOf(PairsOf(RemoveLocal(stats_buffer[i]))))
        /\ OnlyLocal(stats_buffer[i]) =>
               /\ DOMAIN hosts_buffer[i] = {}
               /\ total_speed_buffer[i] = ZeroSpeed

\* the window holds a tick of Local samples only and a tick that mixes a
\* Local sample with an Outgoing one
C13_Witness ==
    /\ \E i \in 1 .. Len(stats_buffer) :
          /\ OnlyLocal(stats_buffer[i])
          /\ \E k \in DOMAIN stats_buffer[i] : stats_buffer[i][k] > 0
    /\ \E i \in 1 .. Len(stats_buffer) :
          /\ \E k \in DOMAIN stats_buffer[i] : k.direction = "Local"
          /\ \E k \in DOMAIN stats_buffer[i] : k.direction = "Outgoing"

\* the step is a tick of the empty map on windows that hold at least one
\* entry and are not full
EmptyTickStep ==
    /\ nAggTicks' = nAggTicks + 1
    /\ stats_buffer /= <<>>
    /\ Len(stats_buffer) < window
    /\ stats_buffer' = Append(stats_buffer, EmptyMap)

\* C15: a tick of the empty map on windows that are not full leaves the
\* computed speeds as they were: the Speed speed_str() averages, the map of
\* speed_per_host() and the averages of connections_strs().
C15_EmptyTickKeepsSpeeds ==
    [][EmptyTickStep =>
          /\ SpeedStr(Aggregator)' = SpeedStr(Aggregator)
          /\ SpeedPerHost(Aggregator)' = SpeedPerHost(Aggregator)
          /\ ConnectionsStrs(Aggregator)' = ConnectionsStrs(Aggregator)]_vars

(***************************************************************************)
(* SpecEviction: an aggregator created with a window size in               *)
(* 1..MaxEvictWindow and ticked up to MaxEvictTicks times with maps of one *)
(* sample; ticked keeps every map given to tick.                           *)
(***************************************************************************)
OutgoingMap(size) == [k \in {SampleKeys[1]} |-> size]

EvictionMaps ==
    {OutgoingMap(size) : size \in {100, 200, 300, 400}} \cup {SampleMap({3}), EmptyMap}

EvictionTick(hash_map) ==
    /\ nAggTicks < MaxEvictTicks
    /\ nAggTicks' = nAggTicks + 1
    /\ ticked' = Append(ticked, hash_map)
    /\ SetAggregator(AggTick(Aggregator, hash_map))
    /\ UNCHANGED <<nif, capVars, chan, clock, appVars, cmdQ, emVars, nCmds, overlap,
                   lastEv, nSleeps, lastRead, rx_dropped, fnVars>>

InitEviction ==
    /\ nif = LanNif
    /\ InitCapture
    /\ InitChannel
    /\ clock = 0
    /\ \E w \in 1 .. MaxEvictWindow : InitAggregator(w)
    /\ nAggTicks = 0
    /\ InitApp
    /\ InitEmitter
    /\ InitCalls

NextEviction == \E hash_map \in EvictionMaps : EvictionTick(hash_map)

SpecEviction == InitEviction /\ [][NextEviction]_vars

\* the last n entries of s, all of s if it has fewer
LastN(s, n) == IF Len(s) <= n THEN s ELSE SubSeq(s, Len(s) - n + 1, Len(s))

\* four ticks whose per-host totals are 100, 200, 300 and 400, window 3
FourTicksExample ==
    /\ window = 3
    /\ ticked = <<OutgoingMap(100), OutgoingMap(200), OutgoingMap(300), OutgoingMap(400)>>

\* C14: eviction is simultaneous and oldest-first: every window holds the
\* data derived from the last W ticks, in tick order, and nothing of older
\* ticks; with W = 3 and four ticks whose per-host totals are 100, 200, 300
\* and 400, speed_str() reports the average of 200, 300 and 400.
C14_EvictOldestFirst ==
    LET last == LastN(ticked, window)
    IN  /\ stats_buffer = last
        /\ speed_buffer_ = MapSeq(DirectionSum, last)
        /\ pairs_buffer = MapSeq(PairsOf, last)
        /\ hosts_buffer = [i \in 1 .. Len(last) |-> HostsOf(PairsOf(last[i]))]
        /\ total_speed_buffer =
               [i \in 1 .. Len(last) |-> TotalOf(HostsOf(PairsOf(last[i])))]
        /\ FourTicksExample =>
               SpeedStr(Aggregator) = Some([input |-> 0, output |-> 300])

C14_Witness == FourTicksExample /\ nAggTicks = 4

(***************************************************************************)
(* SpecScan: the 's' key, the command channel, the Emitter Worker and the  *)
(* consumer receiving the events, on interfaces with zero, one and two     *)
(* IPv4 prefixes.                                                          *)
(***************************************************************************)
ScanNifs ==
    {[name |-> "eth0", mac |-> Some(1), ips |-> ips] :
        ips \in {<<>>,
                 <<V6Net>>,
                 <<V4Net(1, AddrBits - 1)>>,
                 <<V4Net(2, AddrBits - 2)>>,
                 <<V4Net(1, AddrBits - 1), V6Net, V4Net(2, AddrBits)>>}}
    \cup {[name |-> "eth1", mac |-> None, ips |-> <<V4Net(1, AddrBits)>>]}

ScanKeys == {[code |-> "s", ctrl |-> FALSE], [code |-> "q", ctrl |-> FALSE]}

InitScan ==
    /\ nif \in ScanNifs
    /\ InitCapture
    /\ InitChannel
    /\ clock = 0
    /\ InitAggregator(DefaultWindow)
    /\ nAggTicks = 0
    /\ InitApp
    /\ InitEmitter
    /\ InitCalls

NextScan ==
    \/ \E key \in ScanKeys : HandleKeyEvents(key)
    \/ ConsumerRecv
    \/ EmitterRecv
    \/ EmitterBegin
    \/ EmitterSleep
    \/ EmitterProbe
    \/ EmitterComplete

SpecScan == InitScan /\ [][NextScan]_vars

\* the emissions made while serving command c
EmittedFor(c) == SelectSeq(stream, LAMBDA e : e.cmd = c)

CountOf(s, ev) == Len(SelectSeq(s, LAMBDA e : e.ev = ev))

\* the commands the Emitter Worker has finished serving
Served == {c \in 1 .. emCmd : c < emCmd \/ emPc = "recv"}

\* C3: each processed StartScanning gives exactly one BeginScan, before the
\* first probe, and exactly one Complete, after the last probe, whatever
\* the number of IPv4 prefixes.
C3_OneBeginOneComplete ==
    \A c \in Served :
        LET s == EmittedFor(c)
        IN  /\ CountOf(s, "BeginScan") = 1
            /\ CountOf(s, "Complete") = 1
            /\ s[1].ev = "BeginScan"
            /\ s[Len(s)].ev = "Complete"

\* C4: at most one full scan is outstanding: queued commands plus the scan
\* the Emitter Worker is executing.
C4_OneOutstandingScan ==
    Len(cmdQ) + (IF emPc \in {"recv", "exited"} THEN 0 ELSE 1) <= 1

\* C5: scans are serialized: emissions are in command order, a BeginScan
\* comes first or right after a Complete, and every probe and every
\* Complete comes after a BeginScan or a probe; so BeginScan and Complete
\* alternate, starting with BeginScan.
C5_Serialized ==
    /\ \A i \in 1 .. (Len(stream) - 1) : stream[i].cmd <= stream[i + 1].cmd
    /\ \A i \in 1 .. Len(stream) :
          IF stream[i].ev = "BeginScan"
          THEN i = 1 \/ stream[i - 1].ev = "Complete"
          ELSE i > 1 /\ stream[i - 1].ev \in {"BeginScan", "Probe"}

\* a command was sent during an active scan and has been served after it
C5_Witness ==
    /\ overlap
    /\ emCmd = 2
    /\ emPc = "recv"
    /\ CountOf(EmittedFor(2), "Probe") > 0

\* the addresses of a prefix from its network address to its broadcast
\* address, ascending; none for an IPv6 prefix
PrefixAddrs(net) ==
    IF net.v /= 4 THEN <<>>
    ELSE LET size == Pow2(AddrBits - net.prefix)
             first == (net.ip \div size) * size
         IN  [i \in 1 .. size |-> first + (i - 1)]

RECURSIVE ExpectedProbes(_)
ExpectedProbes(nets) ==
    IF nets = <<>> THEN <<>>
    ELSE PrefixAddrs(Head(nets)) \o ExpectedProbes(Tail(nets))

\* the target addresses of the probes emitted while serving command c
ProbesOf(c) ==
    LET s == SelectSeq(EmittedFor(c), LAMBDA e : e.ev = "Probe")
    IN  [i \in 1 .. Len(s) |-> s[i].ip]

\* the interface has one prefix, an IPv4 prefix of four addresses (a /30)
SingleSlash30 ==
    Len(nif.ips) = 1 /\ nif.ips[1].v = 4 /\ nif.ips[1].prefix = AddrBits - 2

\* C16: one scan emits exactly one probe per address of every IPv4 prefix
\* of the interface, network and broadcast address included, in prefix
\* order and ascending address order, and none for an IPv6 prefix; on a
\* single /30 prefix the scan is BeginScan, four probes, Complete.
C16_OneProbePerAddress ==
    \A c \in Served :
        /\ ProbesOf(c) = ExpectedProbes(nif.ips)
        /\ SingleSlash30 =>
              [i \in 1 .. Len(EmittedFor(c)) |-> EmittedFor(c)[i].ev] =
                  <<"BeginScan", "Probe", "Probe", "Probe", "Probe", "Complete">>

\* a scan has been served on the interface with two IPv4 prefixes and an
\* IPv6 prefix between them
C16_Witness ==
    /\ Len(V4Prefixes(nif)) = 2
    /\ Len(nif.ips) = 3
    /\ emCmd >= 1
    /\ emPc = "recv"
    /\ Len(ProbesOf(1)) = 3

\* C17: every probe emission is immediately preceded by one completed
\* sleep of the Emitter Worker: each probe has used up a sleep of its own,
\* and a completed sleep that no probe has followed yet exists exactly
\* while the worker is at the probe that comes next.
C17_SleepBeforeEachProbe ==
    /\ CountOf(stream, "Probe") <= nSleeps
    /\ nSleeps <= CountOf(stream, "Probe") + 1
    /\ (nSleeps = CountOf(stream, "Probe") + 1) <=> (emPc \in {"probe", "exited"})

\* two scans of two prefixes each have been served
C17_Witness ==
    /\ Len(V4Prefixes(nif)) = 2
    /\ emCmd = 2
    /\ emPc = "recv"
    /\ nSleeps = 6

(***************************************************************************)
(* SpecHosts: the consumer handling HostFound and StatTick events and the  *)
(* keys j, k and c. The HostFound events are the ones get_host_infos makes *)
(* of ARP frames of three senders, stamped with a clock that does not go   *)
(* back; the StatTick maps hold traffic of the host with address 1.        *)
(***************************************************************************)
ArpFrame(ip, mac, ok) == [kind |-> "arp", arp |-> [ok |-> ok, ip |-> ip, mac |-> mac]]

HostFrames == {ArpFrame(1, 1, TRUE), ArpFrame(1, 2, TRUE), ArpFrame(0, 1, TRUE)}

HostTickMaps == {EmptyMap, SampleMap({1}), SampleMap({1, 3})}

HostKeys == {[code |-> c, ctrl |-> FALSE] : c \in {"j", "k", "c"}}

\* the main loop receives a HostFound event made of an ARP frame
DeliverHostFound(frame) ==
    /\ running
    /\ \E now \in {clock, clock + 1} :
          /\ now <= MaxClock
          /\ clock' = now
          /\ LET ev == [type |-> "HostFound",
                        host |-> Unwrap(GetHostInfos(frame.arp, nif, now))]
             IN  HandleWorkerEvents(ev) /\ lastEv' = EventTag(ev)
    /\ UNCHANGED <<nif, capVars, chan, cmdQ, emVars, nCmds, overlap, auxVars>>

\* the main loop receives a StatTick event
DeliverStatTick(hash_map) ==
    /\ running
    /\ nAggTicks < MaxHostTicks
    /\ LET ev == [type |-> "StatTick", map |-> hash_map]
       IN  HandleWorkerEvents(ev) /\ lastEv' = EventTag(ev)
    /\ UNCHANGED <<nif, capVars, chan, clock, cmdQ, emVars, nCmds, overlap, auxVars>>

InitHosts ==
    /\ nif = LanNif
    /\ InitCapture
    /\ chan = <<>>
    /\ clock = 0
    /\ InitAggregator(DefaultWindow)
    /\ nAggTicks = 0
    /\ InitApp
    /\ InitEmitter
    /\ InitCalls

NextHosts ==
    \/ \E frame \in HostFrames : DeliverHostFound(frame)
    \/ \E hash_map \in HostTickMaps : DeliverStatTick(hash_map)
    \/ \E key \in HostKeys : HandleKeyEvents(key)

SpecHosts == InitHosts /\ [][NextHosts]_vars

SameIdentity(a, b) == a.ipv4 = b.ipv4 /\ a.mac = b.mac

\* C6: the host list never holds two entries with the same (ipv4, mac).
C6_NoDuplicateHosts ==
    \A i, j \in 1 .. Len(hosts) : SameIdentity(hosts[i], hosts[j]) => i = j

\* a host seen before was seen again, with other hosts in the list
C6_Witness ==
    /\ lastEv.type = "HostFound"
    /\ Len(hosts) >= 2
    /\ \E i \in 1 .. Len(hosts) :
          SameIdentity(hosts[i], lastEv.host) /\ hosts[i].speed /= None

\* the effect C7 gives for HostFound(host) on the list hs, giving hs2
C7_Effect(hs, host, hs2) ==
    IF \E i \in 1 .. Len(hs) : SameIdentity(hs[i], host)
    THEN /\ Len(hs2) = Len(hs)
         /\ \A i \in 1 .. Len(hs) :
               IF SameIdentity(hs[i], host)
               THEN /\ SameIdentity(hs2[i], host)
                    /\ hs2[i].time = host.time
                    /\ hs2[i].speed = hs[i].speed
               ELSE hs2[i] = hs[i]
    ELSE hs2 = Append(hs, host)

\* C7: HostFound for a listed (ipv4, mac) leaves the entry in place with the
\* new timestamp and its old speed, and the length unchanged; for an
\* unlisted pair it appends the record and changes no other entry.
C7_HostFoundEffect ==
    [][lastEv'.type = "HostFound" => C7_Effect(hosts, lastEv'.host, hosts')]_vars

\* a listed host that has a speed was seen again at a later time
C7_Witness ==
    /\ lastEv.type = "HostFound"
    /\ \E i \in 1 .. Len(hosts) :
          /\ i < Len(hosts)
          /\ SameIdentity(hosts[i], lastEv.host)
          /\ hosts[i].speed /= None
          /\ hosts[i].time = lastEv.host.time
          /\ hosts[i].time > hosts[Len(hosts)].time

(***************************************************************************)
(* SpecDirection: the Capture Worker decoding one TCP packet, for every    *)
(* source and destination address, on interfaces with zero, one and two    *)
(* IPv4 prefixes.                                                          *)
(***************************************************************************)
DirNifs ==
    {[name |-> "eth0", mac |-> Some(1), ips |-> ips] :
        ips \in {<<>>,
                 <<V4Net(1, AddrBits)>>,
                 <<V4Net(1, AddrBits - 1)>>,
                 <<V6Net, V4Net(2, AddrBits - 1)>>,
                 <<V4Net(0, AddrBits), V4Net(3, AddrBits - 1)>>}}

DirFrames == {TcpFrame(src, dst, len) : src \in Addrs, dst \in Addrs, len \in {1, 2}}

InitDirection ==
    /\ nif \in DirNifs
    /\ InitCapture
    /\ InitChannel
    /\ clock = 0
    /\ InitAggregator(DefaultWindow)
    /\ nAggTicks = 0
    /\ InitApp
    /\ InitEmitter
    /\ InitCalls

NextDirection == \E frame \in DirFrames : CaptureRead(frame)

SpecDirection == InitDirection /\ [][NextDirection]_vars

\* the addresses bound to the interface: the address of each IPv4 prefix
OwnAddrs == {nif.ips[i].ip : i \in {j \in 1 .. Len(nif.ips) : nif.ips[j].v = 4}}

\* every address of the interface's IPv4 networks, network and broadcast
\* address included
SubnetAddrs ==
    {a \in Addrs :
        \E i \in 1 .. Len(nif.ips) :
            /\ nif.ips[i].v = 4
            /\ a \div Pow2(AddrBits - nif.ips[i].prefix)
                 = nif.ips[i].ip \div Pow2(AddrBits - nif.ips[i].prefix)}

DirectionBy(S, k) ==
    CASE k.src_ip \in S /\ k.dst_ip \in S -> "Local"
      [] k.src_ip \in S /\ k.dst_ip \notin S -> "Outgoing"
      [] k.src_ip \notin S /\ k.dst_ip \in S -> "Incomming"
      [] OTHER -> "None"

\* C8 as stated: the direction of a sample is decided by membership of its
\* source and destination in the interface's own addresses.
C8_Original ==
    capPc = "lock" => capStat.key.direction = DirectionBy(OwnAddrs, capStat.key)

\* C8 amended: the direction is decided by membership of source and
\* destination in the set of all addresses of the IPv4 networks bound to
\* the interface (every address from network to broadcast address, not
\* only the interface's own): both in the set gives Local, only source
\* Outgoing, only destination Incoming, neither None.
C8_DirectionBySubnet ==
    capPc = "lock" => capStat.key.direction = DirectionBy(SubnetAddrs, capStat.key)

\* a sample sent by a neighbour on the interface's network to an address
\* outside it
C8_Witness ==
    /\ capPc = "lock"
    /\ capStat.key.src_ip \in SubnetAddrs \ OwnAddrs
    /\ capStat.key.dst_ip \notin SubnetAddrs
    /\ capStat.key.direction = "Outgoing"

(***************************************************************************)
(* SpecStartup: the three workers and the consumer together from the state *)
(* after Scanner::new: ARP frames of one neighbour, the timer and the key  *)
(* s, on an interface with a one-address prefix.                           *)
(***************************************************************************)
EngineFrames == {ArpFrame(0, 2, TRUE)}

EngineNif == [name |-> "eth0", mac |-> Some(1), ips |-> <<V4Net(1, AddrBits)>>]

InitEngine ==
    /\ nif = EngineNif
    /\ InitCapture
    /\ InitChannel
    /\ clock = 0
    /\ InitAggregator(DefaultWindow)
    /\ nAggTicks = 0
    /\ InitApp
    /\ InitEmitter
    /\ InitCalls

NextStartup ==
    \/ \E frame \in EngineFrames : CaptureRead(frame)
    \/ TickWake
    \/ TickLock
    \/ TickClone
    \/ TickReset
    \/ TickUnlock
    \/ TickSend
    \/ HandleKeyEvents([code |-> "s", ctrl |-> FALSE])
    \/ ConsumerRecv
    \/ EmitterRecv
    \/ EmitterBegin
    \/ EmitterSleep
    \/ EmitterProbe
    \/ EmitterComplete

SpecStartup == InitEngine /\ [][NextStartup]_vars

(***************************************************************************)
(* SpecShutdown: SpecStartup with the key q and main returning after the   *)
(* loop has ended, while the workers are still running.                    *)
(***************************************************************************)
NextShutdown ==
    \/ NextStartup
    \/ HandleKeyEvents([code |-> "q", ctrl |-> FALSE])
    \/ MainExit

SpecShutdown == InitEngine /\ [][NextShutdown]_vars

CountType(s, t) == Len(SelectSeq(s, LAMBDA e : e.type = t))

\* C18: exactly one InterfaceName event is published and it precedes every
\* other scanner event on the channel: it is either the head of the channel
\* or already received, never both and never twice, and the consumer
\* receives no BeginScan, Complete, HostFound or StatTick before it.
C18_InterfaceNameFirst ==
    /\ [](/\ CountType(chan, "InterfaceName") + (IF interface /= "" THEN 1 ELSE 0) = 1
          /\ CountType(chan, "InterfaceName") = 1 => chan[1].type = "InterfaceName")
    /\ [][(chan /= <<>> /\ chan' = Tail(chan) /\ Head(chan).type /= "InterfaceName")
             => interface /= ""]_vars

\* the consumer has received the name, a host, a StatTick and a scan
C18_Witness ==
    /\ interface = nif.name
    /\ hosts /= <<>>
    /\ nAggTicks >= 1
    /\ lastEv.type = "Complete"

\* C19: a failed send on scanner_outputs stops no worker: neither the Tick
\* Worker nor the Emitter Worker ever ends because its send of StatTick,
\* BeginScan or Complete failed, and the Capture Worker goes on reading
\* after a failed send of HostFound.
C19_FailedSendKeepsWorker ==
    /\ tickPc /= "panicked"
    /\ emPc /= "panicked"
    /\ capPc \in {"read", "lock", "fold", "unlock"}

(***************************************************************************)
(* SpecCapture: the Capture Worker reading well-formed and malformed       *)
(* frames and read timeouts, with the Tick Worker draining.                *)
(***************************************************************************)
CaptureFrames ==
    {ArpFrame(0, 2, TRUE),
     ArpFrame(0, 2, FALSE),                              \* truncated ARP payload
     TcpFrame(1, 2, 1),
     [TcpFrame(1, 2, 1) EXCEPT !.pkt.proto = "udp"],
     [TcpFrame(1, 2, 1) EXCEPT !.pkt.ipok = FALSE],      \* truncated IPv4 header
     [TcpFrame(1, 2, 1) EXCEPT !.pkt.l4ok = FALSE],      \* truncated TCP header
     [TcpFrame(1, 2, 1) EXCEPT !.pkt.proto = "icmp"],    \* neither TCP nor UDP
     [kind |-> "short"],                                 \* no room for an Ethernet header
     [kind |-> "ipv6"],                                  \* another ethertype
     [kind |-> "timeout"]}                               \* datalink_rx.next() is Err

InitCaptureSpec ==
    /\ nif = LanNif
    /\ InitCapture
    /\ InitChannel
    /\ clock = 0
    /\ InitAggregator(DefaultWindow)
    /\ nAggTicks = 0
    /\ InitApp
    /\ InitEmitter
    /\ InitCalls

NextCapture ==
    \/ \E frame \in CaptureFrames : CaptureRead(frame)
    \/ CaptureLock
    \/ CaptureFold
    \/ CaptureUnlock
    \/ TickWake
    \/ TickLock
    \/ TickClone
    \/ TickReset
    \/ TickUnlock
    \/ TickSend

SpecCapture == InitCaptureSpec /\ [][NextCapture]_vars

\* the frames C20 is about: too short for an Ethernet header, a truncated
\* ARP or IPv4 payload, a truncated TCP/UDP header, an unknown ethertype, a
\* protocol that is neither TCP nor UDP, and a read timeout
Malformed(frame) ==
    \/ frame.kind \in {"short", "ipv6", "timeout"}
    \/ frame.kind = "arp" /\ ~frame.arp.ok
    \/ frame.kind = "ipv4" /\ (\/ ~frame.pkt.ipok
                               \/ frame.pkt.proto \notin {"tcp", "udp"}
                               \/ ~frame.pkt.l4ok)

\* C20: a per-frame error is confined to its frame: a step in which the
\* Capture Worker reads a malformed frame or gets a read timeout publishes
\* no event, leaves the accumulator as it is and leaves the worker ready to
\* read the next frame. (A step taken at capPc = "read" that does not move
\* the Tick Worker is a read; lastRead' is the frame it read.)
C20_FrameErrorsConfined ==
    [][(capPc = "read" /\ tickPc' = tickPc /\ Malformed(lastRead'))
          => (chan' = chan /\ agg' = agg /\ capPc' = "read")]_vars

\* a frame with a truncated transport header was read while the
\* accumulator held a sample and a HostFound event was in the channel
C20_Witness ==
    /\ lastRead.kind = "ipv4"
    /\ Malformed(lastRead)
    /\ capPc = "read"
    /\ DOMAIN agg /= {}
    /\ CountType(chan, "HostFound") >= 1

(***************************************************************************)
(* The scan under fair scheduling: the tokio runtime keeps polling the     *)
(* Emitter Worker and the main loop keeps receiving, so each of their      *)
(* steps is taken when it stays enabled. The user presses 's' only.        *)
(***************************************************************************)
NextScanFair ==
    \/ HandleKeyEvents([code |-> "s", ctrl |-> FALSE])
    \/ ConsumerRecv
    \/ EmitterRecv
    \/ EmitterBegin
    \/ EmitterSleep
    \/ EmitterProbe
    \/ EmitterComplete

SpecScanFair ==
    /\ InitScan
    /\ [][NextScanFair]_vars
    /\ WF_vars(ConsumerRecv)
    /\ WF_vars(EmitterRecv)
    /\ WF_vars(EmitterBegin)
    /\ WF_vars(EmitterSleep)
    /\ WF_vars(EmitterProbe)
    /\ WF_vars(EmitterComplete)

\* C21: under fair scheduling every StartScanning command sent on the
\* command channel is eventually followed by a Complete event emitted while
\* serving it, whatever the prefixes of the interface and whether or not a
\* probe can be transmitted
C21_ScanCompletes ==
    \A c \in 1 .. MaxCmds :
        (nCmds >= c) ~> (CountOf(EmittedFor(c), "Complete") >= 1)

(***************************************************************************)
(* Interface selection (Scanner::find_interface and                        *)
(* Scanner::find_interface_or_get_default). A name is a sequence of        *)
(* characters; an interface is [name, up, running, loopback].              *)
(***************************************************************************)
MaxInterfaces == 2

\* char::to_lowercase on the characters used in the names
CharToLowercase(c) ==
    CASE c = "E" -> "e"
      [] c = "T" -> "t"
      [] c = "H" -> "h"
      [] c = "W" -> "w"
      [] c = "L" -> "l"
      [] OTHER -> c

\* String::to_lowercase
ToLowercase(str) == [i \in 1 .. Len(str) |-> CharToLowercase(str[i])]

\* str::contains(&pat): pat occurs in str as a contiguous substring
StrContains(str, pat) ==
    \E i \in 0 .. Len(str) - Len(pat) :
        \A j \in 1 .. Len(pat) : str[i + j] = pat[j]

\* Iterator::rev
Rev(seq) == [i \in 1 .. Len(seq) |-> seq[Len(seq) + 1 - i]]

\* Iterator::find: the first of the elements that satisfy the predicate
\* (satisfying is the iterator filtered by it), as an Option
Find(satisfying) ==
    IF satisfying = <<>> THEN None ELSE Some(Head(satisfying))

Ok(x) == [state |-> "Ok", nif |-> x]
Err(msg) == [state |-> "Err", msg |-> msg]

\* Option::ok_or("interface not found")
OkOr(o) == IF o = None THEN Err("interface not found") ELSE Ok(Unwrap(o))

FindInterface(ifs, name) ==
    OkOr(Find(SelectSeq(Rev(ifs),
                        LAMBDA n : /\ n.up
                                   /\ n.running
                                   /\ ~n.loopback
                                   /\ StrContains(ToLowercase(n.name), name))))

FindInterfaceOrGetDefault(ifs, name) ==
    LET c_nif == FindInterface(ifs, name)
    IN  IF c_nif.state = "Ok" THEN c_nif
        ELSE OkOr(Find(SelectSeq(Rev(ifs),
                                 LAMBDA n : n.up /\ n.running /\ ~n.loopback)))

\* Scanner::new, line 49
SelectInterface ==
    /\ found = NotCalled
    /\ found' = FindInterfaceOrGetDefault(interfaces, interface_name)
    /\ UNCHANGED <<nif, capVars, chan, clock, aggVars, nAggTicks, appVars, cmdQ,
                   emVars, nCmds, overlap, lastEv, ticked, nSleeps, lastRead,
                   rx_dropped, interfaces, interface_name, bits, formatted>>

InterfaceNames ==
    {<<"e", "t", "h", "0">>, <<"W", "l", "0">>, <<"l", "o">>}

NameFragments ==
    {<<>>, <<"e", "t", "h">>, <<"E", "T", "H">>, <<"w", "l">>, <<"x">>}

InterfaceFlags ==
    {[up |-> TRUE, running |-> TRUE, loopback |-> FALSE],
     [up |-> FALSE, running |-> TRUE, loopback |-> FALSE],
     [up |-> TRUE, running |-> FALSE, loopback |-> FALSE],
     [up |-> TRUE, running |-> TRUE, loopback |-> TRUE]}

SystemInterfaces ==
    {[name |-> n, up |-> f.up, running |-> f.running, loopback |-> f.loopback] :
        n \in InterfaceNames, f \in InterfaceFlags}

\* the state in which Scanner::new is entered
InitSelect ==
    /\ nif = LanNif
    /\ InitCapture
    /\ chan = <<>>
    /\ clock = 0
    /\ InitAggregator(DefaultWindow)
    /\ nAggTicks = 0
    /\ InitApp
    /\ InitEmitter
    /\ interfaces \in UNION {[1 .. n -> SystemInterfaces] : n \in 0 .. MaxInterfaces}
    /\ interface_name \in NameFragments
    /\ found = NotCalled
    /\ bits = [hi |-> 0, mid |-> 0, lo |-> 0]
    /\ formatted = NotCalled

NextSelect == SelectInterface

SpecSelect == InitSelect /\ [][NextSelect]_vars

Qualifies(n) == n.up /\ n.running /\ ~n.loopback

\* the name contains the fragment, both compared without regard to case
MatchesFragment(n, fragment) ==
    StrContains(ToLowercase(n.name), ToLowercase(fragment))

\* the last of the indices in hits, 0 when there is none
LastIndex(hits) ==
    IF hits = {} THEN 0 ELSE CHOOSE i \in hits : \A j \in hits : j <= i

\* C22: the selector returns the first interface, in reverse enumeration
\* order, that is up, running, not loopback and whose name contains the
\* fragment compared case-insensitively; only when no interface matches the
\* fragment, the first up, running, non-loopback one; it fails when no
\* interface qualifies
C22_SelectsByFragment ==
    found /= NotCalled =>
        LET m == LastIndex({i \in 1 .. Len(interfaces) :
                               /\ Qualifies(interfaces[i])
                               /\ MatchesFragment(interfaces[i], interface_name)})
            d == LastIndex({i \in 1 .. Len(interfaces) : Qualifies(interfaces[i])})
        IN  IF m /= 0 THEN found = Ok(interfaces[m])
            ELSE IF d /= 0 THEN found = Ok(interfaces[d])
            ELSE found.state = "Err"

\* the step handles the key 'c' pressed without Control
CleanKeyStep ==
    /\ lastEv'.type = "Key"
    /\ lastEv'.key = [code |-> "c", ctrl |-> FALSE]

\* the selected row refers to a host of the list
SelectionValid == selected /= None /\ Unwrap(selected) < Len(hosts)

\* C23: 'c' without Control, with a selected row that refers to host h,
\* leaves exactly the hosts discovered strictly later than h, in their
\* previous order; with no row selected or the index past the end of the
\* list, the host list is unchanged
C23_CleanEffect ==
    [][CleanKeyStep =>
          IF SelectionValid
          THEN LET h == hosts[Unwrap(selected) + 1]
                   kept == {i \in 1 .. Len(hosts) : hosts[i].time > h.time}
               IN  /\ Len(hosts') = Cardinality(kept)
                   /\ \A i \in 1 .. Len(hosts') : \E k \in kept : hosts'[i] = hosts[k]
                   /\ \A k \in kept : \E i \in 1 .. Len(hosts') : hosts'[i] = hosts[k]
                   /\ \A i, j \in 1 .. Len(hosts') :
                         i < j => \E k, l \in kept :
                                     k < l /\ hosts'[i] = hosts[k] /\ hosts'[j] = hosts[l]
                   /\ \A i \in 1 .. Len(hosts') : hosts'[i] /= h
          ELSE hosts' = hosts]_vars

\* 'c' was pressed on a row selected when the list was longer: older hosts
\* are gone and a later one is left
C23_Witness ==
    /\ lastEv = [type |-> "Key", key |-> [code |-> "c", ctrl |-> FALSE]]
    /\ hosts /= <<>>
    /\ selected /= None
    /\ Unwrap(selected) >= Len(hosts)

\* the samples of a raw map that count as output of pair p: Outgoing ones,
\* and Local ones whose endpoints were exchanged
OutputKeys(item, p) ==
    {k \in DOMAIN item :
        /\ C9_AmendedPair(k) = p
        /\ \/ k.direction = "Outgoing"
           \/ k.direction = "Local" /\ k.src_ip > k.dst_ip}

\* the samples that count as input of pair p: Incoming ones, and Local ones
\* whose endpoints were kept
InputKeys(item, p) ==
    {k \in DOMAIN item :
        /\ C9_AmendedPair(k) = p
        /\ \/ k.direction = "Incomming"
           \/ k.direction = "Local" /\ k.src_ip <= k.dst_ip}

\* C24: within a tick the Speed stored for a pair is the sum, over all
\* samples that canonicalize to the pair, of size to output for Outgoing, to
\* input for Incoming, and for Local to output if the endpoints were swapped
\* and to input otherwise
C24_PairSpeedIsSum ==
    \A i \in 1 .. Len(stats_buffer) :
        \A p \in DOMAIN pairs_buffer[i] :
            pairs_buffer[i][p] =
                [input |-> SumSize(stats_buffer[i], InputKeys(stats_buffer[i], p)),
                 output |-> SumSize(stats_buffer[i], OutputKeys(stats_buffer[i], p))]

\* a tick held two samples of one pair: both Outgoing on different ports in
\* one entry of the window, a Local pair seen in both directions in another
C24_Witness ==
    /\ \E i \in 1 .. Len(stats_buffer) :
          /\ DOMAIN stats_buffer[i] = {SampleKeys[1], SampleKeys[2]}
          /\ Cardinality(DOMAIN pairs_buffer[i]) = 1
    /\ \E i \in 1 .. Len(stats_buffer) :
          /\ DOMAIN stats_buffer[i] = {SampleKeys[4], SampleKeys[5]}
          /\ \E p \in DOMAIN pairs_buffer[i] :
                pairs_buffer[i][p].input > 0 /\ pairs_buffer[i][p].output > 0

RemoveNone(m) == [k \in {x \in DOMAIN m : x.direction /= "None"} |-> m[k]]

\* the aggregator the same ticks give once their None-direction samples are
\* taken out
WithoutNone ==
    LET stats == [i \in 1 .. Len(stats_buffer) |-> RemoveNone(stats_buffer[i])]
        pairs == MapSeq(PairsOf, stats)
        per_host == MapSeq(HostsOf, pairs)
    IN  [Aggregator EXCEPT !.stats_buffer = stats,
                           !.pairs_buffer = pairs,
                           !.hosts_buffer = per_host,
                           !.total_speed_buffer = MapSeq(TotalOf, per_host)]

\* C25: a sample whose direction is None creates no entry in any pair map
\* and no entry in any per-host map, so speed_per_host() and
\* connections_strs() are the same as if the sample had not been in the tick
C25_NoneDiscarded ==
    /\ pairs_buffer = WithoutNone.pairs_buffer
    /\ hosts_buffer = WithoutNone.hosts_buffer
    /\ SpeedPerHost(Aggregator) = SpeedPerHost(WithoutNone)
    /\ ConnectionsStrs(Aggregator) = ConnectionsStrs(WithoutNone)

\* the sum of a host's Speed over the first n per-host maps of the window
RECURSIVE HostSum(_, _)
HostSum(ip, n) ==
    IF n = 0 THEN ZeroSpeed
    ELSE IF ip \in DOMAIN hosts_buffer[n]
         THEN [input |-> hosts_buffer[n][ip].input + HostSum(ip, n - 1).input,
               output |-> hosts_buffer[n][ip].output + HostSum(ip, n - 1).output]
         ELSE HostSum(ip, n - 1)

\* the number of per-host maps of the window that contain the host
Occurrences(ip) ==
    Cardinality({i \in 1 .. Len(hosts_buffer) : ip \in DOMAIN hosts_buffer[i]})

\* C26: speed_per_host() has a key for exactly the addresses that are a key
\* of at least one per-host map in the window, and its value is the
\* component-wise sum of the host's Speed over the maps containing it,
\* integer-divided by the number of maps containing it
C26_PerHostAverage ==
    LET r == SpeedPerHost(Aggregator)
    IN  /\ DOMAIN r = {ip \in Addrs : Occurrences(ip) > 0}
        /\ \A ip \in DOMAIN r :
              r[ip] = [input |-> HostSum(ip, Len(hosts_buffer)).input \div Occurrences(ip),
                       output |-> HostSum(ip, Len(hosts_buffer)).output \div Occurrences(ip)]

\* the window holds two per-host maps; a host with a speed is in the first
\* only, and the second holds another host
C26_Witness ==
    /\ Len(hosts_buffer) = 2
    /\ \E ip \in DOMAIN hosts_buffer[1] :
          ip \notin DOMAIN hosts_buffer[2] /\ hosts_buffer[1][ip].input > 0
    /\ DOMAIN hosts_buffer[2] /= {}

\* the component-wise sum of the first n entries of the total-speed window
RECURSIVE TotalSum(_)
TotalSum(n) ==
    IF n = 0 THEN ZeroSpeed
    ELSE [input |-> total_speed_buffer[n].input + TotalSum(n - 1).input,
          output |-> total_speed_buffer[n].output + TotalSum(n - 1).output]

\* C27: speed_str() returns the empty string exactly when no tick has been
\* processed; otherwise it renders the sum of all total-speed entries
\* integer-divided by the occupied length of the total-speed window, which
\* is then not zero
C27_TotalAverage ==
    LET n == Len(total_speed_buffer)
    IN  /\ SpeedStr(Aggregator) = None <=> nAggTicks = 0
        /\ nAggTicks > 0 =>
              /\ n > 0
              /\ SpeedStr(Aggregator) =
                     Some([input |-> TotalSum(n).input \div n,
                           output |-> TotalSum(n).output \div n])

\* ticks have been processed, the window is not full and traffic was seen
C27_Witness ==
    /\ nAggTicks > 0
    /\ Len(total_speed_buffer) < window
    /\ TotalSum(Len(total_speed_buffer)).output > 0

(***************************************************************************)
(* format_size. Its u128 argument is kept as three limbs,                  *)
(* bits = hi * 2^32 + mid * 2^16 + lo with mid, lo < 2^16, so that the      *)
(* conversion `bits as u32` keeps its width: it drops hi.                  *)
(***************************************************************************)
MaxHigh == 1

\* `bits as u32`: the low 32 bits
AsU32(b) == [mid |-> b.mid, lo |-> b.lo]

\* the u32 value is below 1024, and below 1024 * 1024
U32Below1024(v) == v.mid = 0 /\ v.lo < 1024
U32Below1024x1024(v) == v.mid < 16

\* format_size: the unit of the string it returns
FormatSize(b) ==
    LET v == AsU32(b)
    IN  IF U32Below1024(v) THEN "Bit/s"
        ELSE IF U32Below1024x1024(v) THEN "Kib/s"
        ELSE "Mib/s"

\* a Speed is displayed: format_size is called on one of its fields
CallFormatSize ==
    /\ formatted = NotCalled
    /\ formatted' = [state |-> "Returned", unit |-> FormatSize(bits)]
    /\ UNCHANGED <<nif, capVars, chan, clock, aggVars, nAggTicks, appVars, cmdQ,
                   emVars, nCmds, overlap, lastEv, ticked, nSleeps, lastRead,
                   rx_dropped, interfaces, interface_name, found, bits>>

FormatInputs ==
    [hi : 0 .. MaxHigh,
     mid : {0, 1, 15, 16, 65535},
     lo : {0, 1, 1023, 1024, 1025, 65535}]

InitFormat ==
    /\ nif = LanNif
    /\ InitCapture
    /\ InitChannel
    /\ clock = 0
    /\ InitAggregator(DefaultWindow)
    /\ nAggTicks = 0
    /\ InitApp
    /\ InitEmitter
    /\ interfaces = <<>>
    /\ interface_name = <<>>
    /\ found = NotCalled
    /\ bits \in FormatInputs
    /\ formatted = NotCalled

NextFormat == CallFormatSize

SpecFormat == InitFormat /\ [][NextFormat]_vars

\* the 128-bit value is below 1024, and below 1024 * 1024
Below1024(b) == b.hi = 0 /\ b.mid = 0 /\ b.lo < 1024
Below1024x1024(b) == b.hi = 0 /\ b.mid < 16

\* C28: for every input B the unit is Bit/s iff B < 1024, Kib/s iff
\* 1024 <= B < 1024 * 1024 and Mib/s iff B >= 1024 * 1024, also for B at
\* and above 2^32
C28_UnitByMagnitude ==
    formatted /= NotCalled =>
        /\ formatted.unit = "Bit/s" <=> Below1024(bits)
        /\ formatted.unit = "Kib/s" <=> (~Below1024(bits) /\ Below1024x1024(bits))
        /\ formatted.unit = "Mib/s" <=> ~Below1024x1024(bits)

\* the worker is between its lock() and the end of the block that holds the
\* guard
CaptureInBlock == capPc \in {"fold", "unlock"}
TickInBlock == tickPc \in {"clone", "reset", "unlock"}

\* C29: the accumulator mutex is held by at most one of the Capture and
\* Tick workers at a time; neither holds it while suspended at an await
\* point or while sending on the event channel (the Tick Worker has released
\* it before it publishes StatTick); and no reachable state is a deadlock on
\* the mutex: its holder can always take a step, and a worker waiting for
\* the free mutex can take it
C29_LockDiscipline ==
    /\ ~(CaptureInBlock /\ TickInBlock)
    /\ CaptureInBlock <=> mutex = "capture"
    /\ TickInBlock <=> mutex = "tick"
    /\ tickPc \in {"await", "send"} => mutex /= "tick"
    /\ capPc = "read" => mutex /= "capture"
    /\ mutex = "capture" => ENABLED (CaptureFold \/ CaptureUnlock)
    /\ mutex = "tick" => ENABLED (TickClone \/ TickReset \/ TickUnlock)
    /\ (mutex = "free" /\ tickPc = "lock") => ENABLED TickLock
    /\ (mutex = "free" /\ capPc = "lock" /\ nFolds < MaxFolds) => ENABLED CaptureLock

\* the Tick Worker waits for the mutex while the Capture Worker holds it
C29_Witness ==
    /\ tickPc = "lock"
    /\ mutex = "capture"
    /\ capPc = "fold"

\* the aggregator after the step
AggregatorAfter ==
    [window |-> window', speed_buffer_ |-> speed_buffer_',
     stat_keys_len |-> stat_keys_len', stats_buffer |-> stats_buffer',
     pairs_buffer |-> pairs_buffer', hosts_buffer |-> hosts_buffer',
     total_speed_buffer |-> total_speed_buffer']

\* C30: handling StatTick advances the aggregator by one tick and sets the
\* speed of each listed host whose ipv4 is a key of speed_per_host() to that
\* value; the speed of every other host, the ipv4, mac, timestamp and order
\* of every host, the number of hosts, sending_arps and the interface name
\* are unchanged
C30_StatTickFrame ==
    [][lastEv'.type = "StatTick" =>
          /\ nAggTicks' = nAggTicks + 1
          /\ \E hash_map \in HostTickMaps :
                AggregatorAfter = AggTick(Aggregator, hash_map)
          /\ Len(hosts') = Len(hosts)
          /\ \A i \in 1 .. Len(hosts) :
                /\ hosts'[i].ipv4 = hosts[i].ipv4
                /\ hosts'[i].mac = hosts[i].mac
                /\ hosts'[i].time = hosts[i].time
                /\ hosts'[i].hostname = hosts[i].hostname
                /\ IF hosts[i].ipv4 \in DOMAIN SpeedPerHost(AggregatorAfter)
                   THEN hosts'[i].speed =
                            Some(SpeedPerHost(AggregatorAfter)[hosts[i].ipv4])
                   ELSE hosts'[i].speed = hosts[i].speed
          /\ sending_arps' = sending_arps
          /\ interface' = interface
          /\ selected' = selected
          /\ running' = running]_vars

\* after a StatTick one listed host has the speed of the tick and another,
\* absent from the tick, still has none
C30_Witness ==
    /\ lastEv.type = "StatTick"
    /\ Len(hosts) >= 2
    /\ \E i \in 1 .. Len(hosts) :
          /\ hosts[i].speed /= None
          /\ Unwrap(hosts[i].speed).output > 0
    /\ \E i \in 1 .. Len(hosts) : hosts[i].speed = None

\* C31: after any sequence of key presses (j, k, c) and scanner events the
\* selected row is either none or an index smaller than the number of
\* hosts, also when the host list is empty and after hosts were cleaned
C31_SelectionInRange ==
    selected = None \/ Unwrap(selected) < Len(hosts)

====
